---- MODULE Spec2Model ----
(***************************************************************************)
(* Model of TMDBClient._make_request (src/main.py), the retry loop of the  *)
(* catalog client.                                                         *)
(*                                                                         *)
(* src/main.py holds two bodies for the retry loop of _make_request:       *)
(*   "nested": lines 119-181, two nested session.get blocks, raising       *)
(*             HTTPException on failure;                                   *)
(*   "flat":   lines 182-248, one request per attempt, returning           *)
(*             dictionaries on failure.                                    *)
(* Both follow the single loop head of lines 108-118.  The file does not   *)
(* say which one runs, so the model draws the body in Init and every       *)
(* property is checked against both.                                       *)
(*                                                                         *)
(* Time is counted in ticks, TicksPerSecond ticks to the second.           *)
(***************************************************************************)
EXTENDS Integers, Sequences, FiniteSets, TLC

(* ------------------------------ bounds -------------------------------- *)

\* largest max_retries argument drawn for a call
MaxAttempts == 3

\* resolution of the clock: the jitter random.uniform(0, 1) is drawn in
\* steps of 1/TicksPerSecond second
TicksPerSecond == 2

\* number of concurrent _make_request calls on one client
NCalls == 2

\* number of sessions a client creates in a run: the stored session is
\* closed from outside only while a replacement may still be created
MaxSessions == 2

\* number of records in the JSON array of a completion
MaxLinks == 2

(* ------------------------- program constants -------------------------- *)

\* src/main.py:203  response.headers.get('Retry-After', 5)
FlatRetryAfterDefault == 5

\* src/main.py:142  response.headers.get('Retry-After', 1)
NestedRetryAfterDefault == 1

\* src/main.py:76  max_retries: int = 3, which every caller leaves as it is
DefaultMaxRetries == 3

\* src/main.py:1-19: the module imports aiohttp, asyncio, logging, traceback,
\* fastapi, requests, os, pathlib, typing, datetime; `random` is not among
\* them, so evaluating random.uniform / random.random raises NameError.
RandomDefined == FALSE

(* ------------------------------ inputs -------------------------------- *)

Variants == {"nested", "flat"}

\* status codes the backend may answer with
ServerErrors == {500, 502, 503, 504}
ClientErrors == {400, 404}
Statuses == {200, 204, 429} \cup ClientErrors \cup ServerErrors

\* parsed JSON bodies of a 200 response
Payloads ==
    { [results |-> <<1>>],
      [results |-> <<>>],
      [id |-> 550] }

\* what response.json() does with the body of a 200 response:
\*   parsed: returns the parsed object
\*   ContentTypeError: aiohttp.ContentTypeError, a subclass of aiohttp.ClientError
\*   JSONDecodeError: json.JSONDecodeError, a subclass of ValueError
JsonOutcomes ==
    { [kind |-> "parsed", payload |-> p] : p \in Payloads }
    \cup { [kind |-> "ContentTypeError", payload |-> [results |-> <<>>]],
           [kind |-> "JSONDecodeError", payload |-> [results |-> <<>>]] }

\* a Retry-After header: <<>> when absent, <<text>> when present, the text
\* being a sequence of characters
Digits == {"0", "1", "2", "3", "4", "5", "6", "7", "8", "9"}

RetryAfterHeaders ==
    { <<>>,
      << <<"0">> >>,
      << <<"3">> >>,
      << <<"1", "2">> >>,
      << <<"s", "o", "o", "n">> >>,
      << <<>> >> }

DigitVal(c) ==
    CASE c = "0" -> 0 [] c = "1" -> 1 [] c = "2" -> 2 [] c = "3" -> 3
      [] c = "4" -> 4 [] c = "5" -> 5 [] c = "6" -> 6 [] c = "7" -> 7
      [] c = "8" -> 8 [] c = "9" -> 9

\* int(text) succeeds on a non-empty run of decimal digits
IsIntText(text) ==
    /\ Len(text) > 0
    /\ \A i \in 1..Len(text) : text[i] \in Digits

RECURSIVE IntOfText(_)
IntOfText(text) ==
    IF Len(text) = 0 THEN 0
    ELSE 10 * IntOfText(SubSeq(text, 1, Len(text) - 1)) + DigitVal(text[Len(text)])

\* int(response.headers.get('Retry-After', default)) raises ValueError
RetryAfterRaises(header) ==
    /\ Len(header) = 1
    /\ ~IsIntText(header[1])

\* int(response.headers.get('Retry-After', default)), in seconds
RetryAfterSeconds(header, default) ==
    IF Len(header) = 0 THEN default ELSE IntOfText(header[1])

RECURSIVE Pow2(_)
Pow2(n) == IF n = 0 THEN 1 ELSE 2 * Pow2(n - 1)

\* (2 ** attempt) + random.uniform(0, 1), in ticks, jitter drawn in ticks
FlatBackoff(a, jitter) == Pow2(a) * TicksPerSecond + jitter

\* 1 + random.random() * (2 ** attempt), in ticks
NestedBackoff(a, jitter) == TicksPerSecond + jitter * Pow2(a)

Jitters == 0..(TicksPerSecond - 1)

(* ------------------------------ state --------------------------------- *)

VARIABLES
    variant,         \* which body of the loop runs
    max_retries,     \* the max_retries argument
    pc,              \* "loop" | "inner" | "sleeping" | "returned" | "raised"
    attempt,         \* the loop variable of `for attempt in range(max_retries)`
    requests,        \* number of session.get requests issued
    outcomes,        \* what each attempt so far ended in
    last_exception,  \* <<>> for None, <<name>> otherwise
    sleep_kind,      \* "none" | "retry_after" | "backoff": the last asyncio.sleep
    sleep_for,       \* its argument, in ticks
    result,          \* <<>> until the call returns, <<value>> afterwards
    exc              \* <<>> until the call raises, <<name, status>> afterwards

loopVars == <<variant, max_retries, pc, attempt, requests, outcomes,
              last_exception, sleep_kind, sleep_for, result, exc>>

\* the client object and the calls running on it concurrently
VARIABLES
    session,         \* self.session: 0 for None, else the session's number
    created,         \* number of aiohttp.ClientSession objects created so far
    closed,          \* the sessions whose .closed is True
    last_got,        \* what the latest get_session call returned, 0 before
    closed_since,    \* a session was closed after the latest get_session call
    calls,           \* per call: its arguments, locals and position
    responses        \* the response objects, by the name that holds them

clientVars == <<session, created, closed, last_got, closed_since, calls,
                responses>>

\* a second call with the same arguments against the same backend
VARIABLES
    run,             \* 1 for the first call, 2 for the second
    script,          \* what the backend answered to the first call, in order
    first            \* <<>> or <<how the first call ended, result, exc>>

replayVars == <<run, script, first>>

\* OpenAIService.get_direct_streaming_links
VARIABLES
    llm_pc,          \* "idle" | "called" | "answered" | "done"
    llm_requests,    \* number of openai.ChatCompletion.create calls made
    completion,      \* <<>> or <<what ChatCompletion.create did>>
    llm_result       \* <<>> or <<how get_direct_streaming_links ended>>

llmVars == <<llm_pc, llm_requests, completion, llm_result>>

\* a request handler: get_movie, read_movie or watch_media
VARIABLES
    handler,         \* "none" or the handler's name
    h_pc,            \* where the handler is
    media_type,      \* the path parameter of watch_media
    key_set,         \* os.getenv('OPENAI_API_KEY') is set
    media,           \* <<>> until the primary lookup returns, then <<dict>>
    ai_links,        \* the list of that name in watch_media
    providers,       \* <<>> until get_watch_providers returns, then <<dict>>
    response         \* <<>> until the handler answers, then <<answer>>

handlerVars == <<handler, h_pc, media_type, key_set, media, ai_links,
                 providers, response>>

\* a call of one of the accessors of TMDBClient (get_trending, ...)
VARIABLES
    accessor,        \* "none" or the accessor's name
    acc_pc,          \* "idle" | "called" | "done"
    fetched,         \* <<>> or <<how its _make_request call ended>>
    acc_out          \* <<>> or <<how the accessor ended>>

accessorVars == <<accessor, acc_pc, fetched, acc_out>>

\* everything but the variables of the _make_request loop
otherVars == <<clientVars, replayVars, llmVars, handlerVars, accessorVars>>

\* everything but the variables of the client and its calls
notClientVars == <<loopVars, replayVars, llmVars, handlerVars, accessorVars>>

\* everything but the variables of the recommendation service
notLlmVars == <<loopVars, clientVars, replayVars, handlerVars, accessorVars>>

\* everything but the variables of the service and of the handler
notHandlerVars == <<loopVars, clientVars, replayVars, accessorVars>>

\* everything but the variables of the accessor call
notAccessorVars == <<loopVars, clientVars, replayVars, llmVars, handlerVars>>

vars == <<loopVars, otherVars>>

Calls == 1..NCalls

\* a dict is the set of its <<key, value>> items
ApiKeyItem == <<"api_key", "KEY">>

\* d[key] = value
SetItem(d, key, value) == {item \in d : item[1] # key} \cup {<<key, value>>}

IdleCall ==
    [pc |-> "idle", given |-> <<>>, caller |-> {}, alias |-> FALSE,
     own |-> {}, url |-> <<>>, attempt |-> 0, sess |-> 0, sent |-> {},
     result |-> <<>>]

\* TMDBClient.__init__ and no call started
ClientInit ==
    /\ session = 0
    /\ created = 0
    /\ closed = {}
    /\ last_got = 0
    /\ closed_since = FALSE
    /\ calls = [c \in Calls |-> IdleCall]
    /\ responses = [c \in Calls |-> <<>>]

\* one _make_request call with nothing else running
LoopInit ==
    /\ variant \in Variants
    /\ max_retries \in 1..MaxAttempts
    /\ pc = "loop"
    /\ attempt = 0
    /\ requests = 0
    /\ outcomes = <<>>
    /\ last_exception = <<>>
    /\ sleep_kind = "none"
    /\ sleep_for = 0
    /\ result = <<>>
    /\ exc = <<>>

\* the first call is about to run
ReplayInit ==
    /\ run = 1
    /\ script = <<>>
    /\ first = <<>>

\* get_direct_streaming_links has not been called
LlmInit ==
    /\ llm_pc = "idle"
    /\ llm_requests = 0
    /\ completion = <<>>
    /\ llm_result = <<>>

\* no request has arrived
HandlerInit ==
    /\ handler = "none"
    /\ h_pc = "idle"
    /\ media_type = "movie"
    /\ key_set \in BOOLEAN
    /\ media = <<>>
    /\ ai_links = <<>>
    /\ providers = <<>>
    /\ response = <<>>

\* no accessor has been called
AccessorInit ==
    /\ accessor = "none"
    /\ acc_pc = "idle"
    /\ fetched = <<>>
    /\ acc_out = <<>>

Init ==
    /\ LoopInit
    /\ ClientInit
    /\ ReplayInit
    /\ LlmInit
    /\ HandlerInit
    /\ AccessorInit

(* ----------------------- ways a step of the loop ends ------------------ *)

\* return value
Return(value) ==
    /\ pc' = "returned"
    /\ result' = <<value>>
    /\ UNCHANGED <<attempt, sleep_kind, sleep_for, exc>>

\* an exception leaves _make_request
Raise(name, status) ==
    /\ pc' = "raised"
    /\ exc' = <<name, status>>
    /\ UNCHANGED <<attempt, sleep_kind, sleep_for, result>>

\* await asyncio.sleep(ticks); the `continue` follows when the sleep is over
Sleep(kind, ticks) ==
    /\ pc' = "sleeping"
    /\ sleep_kind' = kind
    /\ sleep_for' = ticks
    /\ UNCHANGED <<attempt, result, exc>>

\* `continue` (or falling off the end of the loop body) with no sleep
Continue ==
    /\ pc' = "loop"
    /\ attempt' = attempt + 1
    /\ UNCHANGED <<sleep_kind, sleep_for, result, exc>>

\* the backend answers an attempt; to the second call it answers what it
\* answered to the first one, for as long as that goes
Note(outcome) ==
    /\ outcomes' = Append(outcomes, outcome)
    /\ (run = 2 /\ Len(outcomes) < Len(script))
           => outcome = script[Len(outcomes) + 1]

StatusOutcome(s) == [kind |-> "status", status |-> s]
TransportOutcome == [kind |-> "transport", status |-> 0]
UnexpectedOutcome == [kind |-> "unexpected", status |-> 0]

InAttempt == pc = "loop" /\ attempt < max_retries

(* ------------------- the "flat" body, lines 182-248 -------------------- *)

\* lines 224-231 and 232-240: both except clauses record the exception, back
\* off when attempts remain, and continue.  The backoff expression names
\* `random`; a NameError raised inside an except clause is not caught by the
\* sibling clauses and leaves the function.
FlatExcept(name) ==
    /\ last_exception' = <<name>>
    /\ IF attempt < max_retries - 1
       THEN IF RandomDefined
            THEN \E j \in Jitters : Sleep("backoff", FlatBackoff(attempt, j))
            ELSE Raise("NameError", 0)
       ELSE Continue

\* the 200 branch with the parsed body dropped for the empty result
FlatOn200_DropsBody(json) == [results |-> <<>>]

\* line 196 / 192: what the 200 branch returns
FlatOn200(json) ==
    IF json.kind = "parsed" THEN json.payload ELSE [results |-> <<>>]

\* line 200: what the 204 branch returns
FlatOn204 == [results |-> <<>>]

\* the annotated error result with the number of the call in its message
FlatErrorResult_Stamped(status) ==
    [status_code |-> status,
     status_message |-> <<"Error making request", run>>,
     results |-> <<>>]

\* lines 219-223: the annotated error result
FlatErrorResult(status) ==
    [status_code |-> status,
     status_message |-> <<"Error making request">>,
     results |-> <<>>]

\* lines 242-248: the result after the loop has run out; the message holds
\* max_retries and str(last_exception), or "Unknown error" for None
FlatExhaustedResult ==
    [status_code |-> 500,
     status_message |-> <<"Error making request after attempts", max_retries,
                          IF last_exception # <<>> THEN last_exception
                          ELSE <<"Unknown error">> >>]

\* session.get or response.text() raises aiohttp.ClientError / asyncio.TimeoutError
FlatTransportError ==
    /\ UNCHANGED otherVars
    /\ variant = "flat"
    /\ InAttempt
    /\ requests' = requests + 1
    /\ Note(TransportOutcome)
    /\ FlatExcept("ClientError")
    /\ UNCHANGED <<variant, max_retries>>

\* any other exception inside the try block
FlatUnexpectedError ==
    /\ UNCHANGED otherVars
    /\ variant = "flat"
    /\ InAttempt
    /\ requests' = requests + 1
    /\ Note(UnexpectedOutcome)
    /\ FlatExcept("Exception")
    /\ UNCHANGED <<variant, max_retries>>

\* lines 190-196
FlatStatus200 ==
    /\ UNCHANGED otherVars
    /\ variant = "flat"
    /\ InAttempt
    /\ \E json \in JsonOutcomes :
         /\ Note([kind |-> "status", status |-> 200, json |-> json])
         /\ Return(FlatOn200(json))
    /\ requests' = requests + 1
    /\ UNCHANGED <<variant, max_retries, last_exception>>

\* lines 198-200
FlatStatus204 ==
    /\ UNCHANGED otherVars
    /\ variant = "flat"
    /\ InAttempt
    /\ requests' = requests + 1
    /\ Note(StatusOutcome(204))
    /\ Return(FlatOn204)
    /\ UNCHANGED <<variant, max_retries, last_exception>>

\* lines 202-206; int() raising ValueError lands in the clause of line 232
FlatStatus429 ==
    /\ UNCHANGED otherVars
    /\ variant = "flat"
    /\ InAttempt
    /\ requests' = requests + 1
    /\ \E header \in RetryAfterHeaders :
         /\ Note([kind |-> "status", status |-> 429, header |-> header])
         /\ IF RetryAfterRaises(header)
            THEN FlatExcept("ValueError")
            ELSE /\ Sleep("retry_after",
                          RetryAfterSeconds(header, FlatRetryAfterDefault)
                              * TicksPerSecond)
                 /\ UNCHANGED last_exception
    /\ UNCHANGED <<variant, max_retries>>

\* lines 208-223; the NameError of line 214 is raised inside the try block
\* and lands in the clause of line 232
FlatOtherStatus ==
    /\ UNCHANGED otherVars
    /\ variant = "flat"
    /\ InAttempt
    /\ requests' = requests + 1
    /\ \E s \in Statuses \ {200, 204, 429} :
         /\ Note(StatusOutcome(s))
         /\ IF attempt < max_retries - 1 /\ s >= 500
            THEN IF RandomDefined
                 THEN /\ \E j \in Jitters :
                            Sleep("backoff", FlatBackoff(attempt, j))
                      /\ UNCHANGED last_exception
                 ELSE FlatExcept("NameError")
            ELSE /\ Return(FlatErrorResult(s))
                 /\ UNCHANGED last_exception
    /\ UNCHANGED <<variant, max_retries>>

\* lines 242-248
FlatExhausted ==
    /\ UNCHANGED otherVars
    /\ variant = "flat"
    /\ pc = "loop"
    /\ attempt = max_retries
    /\ Return(FlatExhaustedResult)
    /\ UNCHANGED <<variant, max_retries, requests, outcomes, last_exception>>

(* ------------------ the "nested" body, lines 119-181 ------------------- *)

\* lines 162-175
NestedExcept(name) ==
    /\ last_exception' = <<name>>
    /\ IF attempt = max_retries - 1
       THEN Raise("HTTPException", 500)
       ELSE IF RandomDefined
            THEN \E j \in Jitters : Sleep("backoff", NestedBackoff(attempt, j))
            ELSE Raise("NameError", 0)

\* lines 119-124: the outer session.get; its response is never read
NestedOuterRequest ==
    /\ UNCHANGED otherVars
    /\ variant = "nested"
    /\ InAttempt
    /\ requests' = requests + 1
    /\ pc' = "inner"
    /\ UNCHANGED <<variant, max_retries, attempt, outcomes, last_exception,
                   sleep_kind, sleep_for, result, exc>>

\* the outer or the inner session.get raises ClientError / TimeoutError
NestedTransportError ==
    /\ UNCHANGED otherVars
    /\ variant = "nested"
    /\ InAttempt \/ pc = "inner"
    /\ requests' = requests + 1
    /\ Note(TransportOutcome)
    /\ NestedExcept("ClientError")
    /\ UNCHANGED <<variant, max_retries>>

\* any other exception: no clause catches it
NestedUnexpectedError ==
    /\ UNCHANGED otherVars
    /\ variant = "nested"
    /\ InAttempt \/ pc = "inner"
    /\ requests' = requests + 1
    /\ Note(UnexpectedOutcome)
    /\ Raise("Exception", 0)
    /\ UNCHANGED <<variant, max_retries, last_exception>>

\* lines 137-138
NestedStatus200 ==
    /\ UNCHANGED otherVars
    /\ variant = "nested"
    /\ pc = "inner"
    /\ requests' = requests + 1
    /\ \E json \in JsonOutcomes :
         /\ Note([kind |-> "status", status |-> 200, json |-> json])
         /\ CASE json.kind = "parsed" ->
                   Return(json.payload) /\ UNCHANGED last_exception
              [] json.kind = "ContentTypeError" ->
                   NestedExcept("ClientError")
              [] json.kind = "JSONDecodeError" ->
                   Raise("ValueError", 0) /\ UNCHANGED last_exception
    /\ UNCHANGED <<variant, max_retries>>

\* lines 141-145
NestedStatus429 ==
    /\ UNCHANGED otherVars
    /\ variant = "nested"
    /\ pc = "inner"
    /\ requests' = requests + 1
    /\ \E header \in RetryAfterHeaders :
         /\ Note([kind |-> "status", status |-> 429, header |-> header])
         /\ IF RetryAfterRaises(header)
            THEN Raise("ValueError", 0)
            ELSE Sleep("retry_after",
                       RetryAfterSeconds(header, NestedRetryAfterDefault)
                           * TicksPerSecond)
    /\ UNCHANGED <<variant, max_retries, last_exception>>

\* lines 147-160: every status but 200 and 429
NestedOtherStatus ==
    /\ UNCHANGED otherVars
    /\ variant = "nested"
    /\ pc = "inner"
    /\ requests' = requests + 1
    /\ \E s \in Statuses \ {200, 429} :
         /\ Note(StatusOutcome(s))
         /\ IF attempt = max_retries - 1
            THEN Raise("HTTPException", s)
            ELSE IF RandomDefined
                 THEN \E j \in Jitters :
                          Sleep("backoff", NestedBackoff(attempt, j))
                 ELSE Raise("NameError", 0)
    /\ UNCHANGED <<variant, max_retries, last_exception>>

\* lines 177-181
NestedExhausted ==
    /\ UNCHANGED otherVars
    /\ variant = "nested"
    /\ pc = "loop"
    /\ attempt = max_retries
    /\ Raise("HTTPException", 500)
    /\ UNCHANGED <<variant, max_retries, requests, outcomes, last_exception>>

(* ------------------------------- both ---------------------------------- *)

\* asyncio.sleep is over: the `continue` (or the end of the loop body) takes
\* the loop to its next iteration
Wake ==
    /\ UNCHANGED otherVars
    /\ pc = "sleeping"
    /\ pc' = "loop"
    /\ attempt' = attempt + 1
    /\ UNCHANGED <<variant, max_retries, requests, outcomes, last_exception,
                   sleep_kind, sleep_for, result, exc>>

Next ==
    \/ FlatTransportError
    \/ FlatUnexpectedError
    \/ FlatStatus200
    \/ FlatStatus204
    \/ FlatStatus429
    \/ FlatOtherStatus
    \/ FlatExhausted
    \/ NestedOuterRequest
    \/ NestedTransportError
    \/ NestedUnexpectedError
    \/ NestedStatus200
    \/ NestedStatus429
    \/ NestedOtherStatus
    \/ NestedExhausted
    \/ Wake

Spec == Init /\ [][Next]_vars

Done == pc \in {"returned", "raised"}

(* ------------------------- reading the state --------------------------- *)

\* the mapping has the key `results` and its value is the empty list
HasEmptyResults(value) ==
    /\ "results" \in DOMAIN value
    /\ value.results = <<>>

IsServerError(o) == o.kind = "status" /\ o.status \in ServerErrors
IsTransport(o) == o.kind = "transport"
IsStatus(o, s) == o.kind = "status" /\ o.status = s
IsParsed200(o) == IsStatus(o, 200) /\ o.json.kind = "parsed"
IsUnparsable200(o) == IsStatus(o, 200) /\ o.json.kind # "parsed"

Attempts == 1..Len(outcomes)

\* the requests a call can have issued by the end of its n-th attempt: one
\* per attempt in the flat body, at most two in the nested body
RequestsWithin(n) == IF variant = "flat" THEN n ELSE 2 * n

\* the step in which attempt `attempt` ends with outcome o
EndsAttemptWith(o) ==
    /\ Len(outcomes') = Len(outcomes) + 1
    /\ outcomes'[Len(outcomes')] = o

(* ------------------------------ claims --------------------------------- *)

\* C1: when every attempt of a call ended in a status of {500, 502, 503,
\* 504} or in a transport error, the call has made exactly max_retries
\* attempts (the first and max_retries - 1 retries) and has returned a
\* mapping whose `results` is the empty list.
C1_TransientFailuresExhaustToEmpty ==
    ( /\ Done
      /\ outcomes # <<>>
      /\ \A i \in Attempts : IsServerError(outcomes[i]) \/ IsTransport(outcomes[i]) )
    => ( /\ pc = "returned"
         /\ Len(outcomes) = max_retries
         /\ HasEmptyResults(result[1]) )

\* C2: a call of _make_request never ends by raising: whatever the attempts
\* ended in, no exception leaves the function.
C2_NeverRaises == pc # "raised"

\* C3: every value the call returns on a failure path (anything but a 200
\* whose body parsed) is a mapping with `results` equal to the empty list.
C3_FailureResultHasEmptyResults ==
    ( /\ pc = "returned"
      /\ ~(outcomes # <<>> /\ IsParsed200(outcomes[Len(outcomes)])) )
    => HasEmptyResults(result[1])

\* the delay C4 states for a 429 response: the Retry-After value in
\* seconds, 5 seconds when the header is absent or no valid integer
C4_StatedDelay(header) ==
    IF Len(header) = 1 /\ IsIntText(header[1])
    THEN IntOfText(header[1]) * TicksPerSecond
    ELSE 5 * TicksPerSecond

\* C4: a step in which an attempt with attempts remaining (index below
\* max_retries - 1) receives 429 goes to sleep for the Retry-After delay and
\* no backoff: exactly the header's value in seconds, or exactly 5 seconds
\* when the header is absent or invalid; the next attempt follows that sleep.
C4_RateLimitDelayIsRetryAfter ==
    [][ \A header \in RetryAfterHeaders :
            ( /\ attempt < max_retries - 1
              /\ EndsAttemptWith([kind |-> "status", status |-> 429,
                                  header |-> header]) )
            => ( /\ pc' = "sleeping"
                 /\ sleep_kind' = "retry_after"
                 /\ sleep_for' = C4_StatedDelay(header) ) ]_vars

\* C5: when every attempt of a call was answered with 429, the call has
\* issued at most max_retries requests and has returned a mapping whose
\* `results` is the empty list.
C5_RateLimitConsumesAttempts ==
    ( /\ Done
      /\ outcomes # <<>>
      /\ \A i \in Attempts : IsStatus(outcomes[i], 429) )
    => ( /\ pc = "returned"
         /\ requests <= max_retries
         /\ HasEmptyResults(result[1]) )

\* C6: an attempt that received 200 with a body that parses is the last
\* attempt of the call: the call has returned exactly the parsed object and
\* has issued no request after that attempt's.
C6_Parsed200ReturnedUnchanged ==
    \A i \in Attempts :
        IsParsed200(outcomes[i])
        => ( /\ i = Len(outcomes)
             /\ pc = "returned"
             /\ result = <<outcomes[i].json.payload>>
             /\ requests <= RequestsWithin(i) )

\* C6 witness: a call returned a parsed body with a non-empty results list
\* on a retry that followed a rate-limited attempt
C6_Witness ==
    /\ pc = "returned"
    /\ Len(outcomes) >= 2
    /\ IsStatus(outcomes[1], 429)
    /\ IsParsed200(outcomes[Len(outcomes)])
    /\ result = << [results |-> <<1>>] >>

\* C7: an attempt that received 200 with a body that is no valid JSON is
\* the last attempt: the call has returned exactly {results: []} and has
\* issued no further request.
C7_Unparsable200ReturnsEmpty ==
    \A i \in Attempts :
        IsUnparsable200(outcomes[i])
        => ( /\ i = Len(outcomes)
             /\ pc = "returned"
             /\ result = << [results |-> <<>>] >>
             /\ requests <= RequestsWithin(i) )

\* C8: an attempt that received 204 is the last attempt: the call has
\* returned {results: []} and has issued no further request.
C8_NoContentReturnsEmpty ==
    \A i \in Attempts :
        IsStatus(outcomes[i], 204)
        => ( /\ i = Len(outcomes)
             /\ pc = "returned"
             /\ result = << [results |-> <<>>] >>
             /\ requests <= RequestsWithin(i) )

\* C9: a step in which an attempt receives a 4xx status other than 429
\* returns at once, without a sleep: the value has `results` equal to the
\* empty list and carries that status code, and the attempt is the last.
C9_ClientErrorNotRetried ==
    [][ \A s \in ClientErrors :
            EndsAttemptWith(StatusOutcome(s))
            => ( /\ pc' = "returned"
                 /\ HasEmptyResults(result'[1])
                 /\ "status_code" \in DOMAIN result'[1]
                 /\ result'[1].status_code = s
                 /\ UNCHANGED <<sleep_kind, sleep_for>> ) ]_vars

\* C10: a step in which the attempt of index a < max_retries - 1 ends in a
\* 5xx status or a transport error goes to sleep for a backoff delay d with
\* min(cap, 2^a) <= d <= cap and d < 2^a + 1 second, for a cap of whole
\* seconds.
C10_BackoffDelayWithinCap ==
    [][ ( /\ attempt < max_retries - 1
          /\ \/ EndsAttemptWith(TransportOutcome)
             \/ \E s \in ServerErrors : EndsAttemptWith(StatusOutcome(s)) )
        => ( /\ pc' = "sleeping"
             /\ sleep_kind' = "backoff"
             /\ sleep_for' < (Pow2(attempt) + 1) * TicksPerSecond
             /\ \E cap \in 1..Pow2(MaxAttempts) :
                    /\ sleep_for' <= cap * TicksPerSecond
                    /\ \/ sleep_for' >= cap * TicksPerSecond
                       \/ sleep_for' >= Pow2(attempt) * TicksPerSecond ) ]_vars

(* ---------- the client under concurrent calls (lines 57-135) ----------- *)
(* Calls of _make_request run as coroutines of one event loop: a call runs  *)
(* from one await that suspends to the next without interruption.  This     *)
(* part follows a call through its successful path and through the retry    *)
(* after 429; any other ending of an attempt is the one the loop above      *)
(* gives it and shows here as pc = "failed".                                *)

\* the endpoint argument of each call, as path segments
Endpoints == << <<"trending">>, <<"/", "movie", "/", "550">> >>

EndpointOf(c) == Endpoints[((c - 1) % Len(Endpoints)) + 1]

\* the params argument: <<>> for None, <<dict>> for a dict
ParamArgs == { <<>>, << {} >>, << {<<"page", "1">>} >> }

\* line 93: `params or {}` keeps the caller's dict unless it is None or empty
KeepsCallerDict(given) == given # <<>> /\ given[1] # {}

\* the params arguments of each call: the odd calls pass a dict with items
\* (search, get_popular_movies, ...), the even ones None or an empty dict
\* (get_trending, get_watch_providers, ...)
ParamArgsOf(c) ==
    {given \in ParamArgs : KeepsCallerDict(given) <=> (c % 2 = 1)}

\* endpoint.lstrip('/')
RECURSIVE Lstrip(_)
Lstrip(path) ==
    IF path # <<>> /\ Head(path) = "/" THEN Lstrip(Tail(path)) ELSE path

\* lines 101-103: f"{base_url}/{endpoint}"; base_url has no trailing slash
Url(endpoint) == <<"https://api.themoviedb.org/3", "/">> \o Lstrip(endpoint)

\* the backend: the payload of a request names the request it answers
Catalog(url, params) == [results |-> << [url |-> url, params |-> params] >>]

\* the dict the local name `params` refers to
Params(call) == IF call.alias THEN call.caller ELSE call.own

\* the name that holds a call's response: `response` is a local of the call
\* (lines 124, 135, 184)
ResponseSlot_Shared(c) == 1

ResponseSlot(c) == c

\* line 68: self.session is None or self.session.closed
NeedsNewSession_IgnoresClosed(s, closedSessions) == s = 0

NeedsNewSession(s, closedSessions) == s = 0 \/ s \in closedSessions

\* lines 67-70: the session get_session returns
GetSession == IF NeedsNewSession(session, closed) THEN created + 1 ELSE session

\* the call is over: its frame (attempt, session) is gone, what it sent and
\* what it returned stay on record
Over(call, how, value) ==
    [call EXCEPT !.pc = how, !.result = value, !.attempt = 0, !.sess = 0]

\* lines 92-106: the call binds its locals
CallEnter(c) ==
    /\ calls[c].pc = "idle"
    /\ \E given \in ParamArgsOf(c) :
         LET alias == KeepsCallerDict(given)
             mine == IF given = <<>> THEN {} ELSE given[1]
         IN  calls' = [calls EXCEPT ![c] =
                 [@ EXCEPT !.pc = "attempt",
                           !.given = given,
                           !.alias = alias,
                           !.caller = IF alias
                                      THEN SetItem(mine, ApiKeyItem[1], ApiKeyItem[2])
                                      ELSE mine,
                           !.own = IF alias
                                   THEN {}
                                   ELSE SetItem({}, ApiKeyItem[1], ApiKeyItem[2]),
                           !.url = Url(EndpointOf(c))]]
    /\ UNCHANGED <<session, created, closed, last_got, closed_since, responses>>
    /\ UNCHANGED notClientVars

\* lines 109-124: get_session, then session.get sends the request
CallAttempt(c) ==
    /\ calls[c].pc = "attempt"
    /\ session' = GetSession
    /\ created' = IF NeedsNewSession(session, closed) THEN created + 1 ELSE created
    /\ last_got' = GetSession
    /\ closed_since' = FALSE
    /\ calls' = [calls EXCEPT ![c] =
           [@ EXCEPT !.pc = IF variant = "nested" THEN "wait_outer" ELSE "wait",
                     !.sess = GetSession,
                     !.sent = @ \cup {[url |-> calls[c].url,
                                         params |-> Params(calls[c])]}]]
    /\ UNCHANGED <<closed, responses>>
    /\ UNCHANGED notClientVars

\* lines 124-135, nested body: the outer response arrives and is bound to
\* `response`; the inner session.get sends the request again
CallOuterAnswered(c) ==
    /\ variant = "nested"
    /\ calls[c].pc = "wait_outer"
    /\ calls[c].sess \notin closed
    /\ responses' = [responses EXCEPT ![ResponseSlot(c)] =
           << Catalog(calls[c].url, Params(calls[c])) >>]
    /\ calls' = [calls EXCEPT ![c] =
           [@ EXCEPT !.pc = "wait",
                     !.sent = @ \cup {[url |-> calls[c].url,
                                         params |-> Params(calls[c])]}]]
    /\ UNCHANGED <<session, created, closed, last_got, closed_since>>
    /\ UNCHANGED notClientVars

\* the response with status 200 arrives and is bound to `response`
CallAnswered200(c) ==
    /\ calls[c].pc = "wait"
    /\ calls[c].sess \notin closed
    /\ responses' = [responses EXCEPT ![ResponseSlot(c)] =
           << Catalog(calls[c].url, Params(calls[c])) >>]
    /\ calls' = [calls EXCEPT ![c] = [@ EXCEPT !.pc = "read"]]
    /\ UNCHANGED <<session, created, closed, last_got, closed_since>>
    /\ UNCHANGED notClientVars

\* lines 141-145 / 202-206: status 429 with a valid Retry-After; after the
\* sleep the loop goes on, or has run out
CallAnswered429(c) ==
    /\ calls[c].pc = "wait"
    /\ calls[c].sess \notin closed
    /\ calls' = [calls EXCEPT ![c] =
           IF calls[c].attempt + 1 < max_retries
           THEN [@ EXCEPT !.pc = "attempt", !.attempt = @ + 1]
           ELSE Over(calls[c], "failed", <<>>)]
    /\ UNCHANGED <<session, created, closed, last_got, closed_since, responses>>
    /\ UNCHANGED notClientVars

\* any other status, a transport error or a closed session
CallAttemptFails(c) ==
    /\ calls[c].pc \in {"wait_outer", "wait"}
    /\ calls' = [calls EXCEPT ![c] = Over(calls[c], "failed", <<>>)]
    /\ UNCHANGED <<session, created, closed, last_got, closed_since, responses>>
    /\ UNCHANGED notClientVars

\* lines 138 / 185-192: return await response.json()
CallReadBody(c) ==
    /\ calls[c].pc = "read"
    /\ calls' = [calls EXCEPT ![c] =
           Over(calls[c], "done", responses[ResponseSlot(c)])]
    /\ UNCHANGED <<session, created, closed, last_got, closed_since, responses>>
    /\ UNCHANGED notClientVars

\* the stored session is closed from outside the client
CloseSession ==
    /\ session # 0
    /\ session \notin closed
    /\ created < MaxSessions
    /\ closed' = closed \cup {session}
    /\ closed_since' = TRUE
    /\ UNCHANGED <<session, created, last_got, calls, responses>>
    /\ UNCHANGED notClientVars

Enter == \E c \in Calls : CallEnter(c)
StartAttempt == \E c \in Calls : CallAttempt(c)
OuterAnswered == \E c \in Calls : CallOuterAnswered(c)
Answered200 == \E c \in Calls : CallAnswered200(c)
Answered429 == \E c \in Calls : CallAnswered429(c)
AttemptFails == \E c \in Calls : CallAttemptFails(c)
ReadBody == \E c \in Calls : CallReadBody(c)

ClientNext ==
    \/ Enter
    \/ StartAttempt
    \/ OuterAnswered
    \/ Answered200
    \/ Answered429
    \/ AttemptFails
    \/ ReadBody
    \/ CloseSession

\* the calls of the accessors: max_retries is left at its default
ClientSpecInit == Init /\ max_retries = DefaultMaxRetries

ClientSpec == ClientSpecInit /\ [][ClientNext]_vars

(* --------------------- claims about the client ------------------------- *)

\* the step in which call c runs get_session (and sends its request)
GetsSession(c) == calls[c].pc = "attempt" /\ calls'[c].pc # "attempt"

\* C11: the session is created lazily and reused.  self.session is None as
\* long as no get_session call was made; every get_session call returns a
\* session that is open at that moment; a get_session call that follows
\* another with no close in between returns the same session; and a
\* get_session call made while the stored session is closed returns a
\* session created by that call.
C11_SessionLazyAndReused ==
    [][ /\ (last_got = 0 => session = 0)
        /\ \A c \in Calls :
             GetsSession(c)
             => LET got == calls'[c].sess
                IN  /\ got # 0
                    /\ got \notin closed'
                    /\ got = session'
                    /\ (last_got # 0 /\ ~closed_since => got = last_got)
                    /\ (session \in closed => got > created /\ got = created') ]_vars

\* C11 witness: the first session was closed and a get_session call has
\* returned the second one, which a later call got again
C11_Witness ==
    /\ 1 \in closed
    /\ session = 2
    /\ last_got = 2
    /\ ~closed_since
    /\ calls[1].sess = 2
    /\ calls[2].sess = 2

\* the params a call sends: the given ones and the api key
SentParams(c) ==
    SetItem(IF calls[c].given = <<>> THEN {} ELSE calls[c].given[1],
            ApiKeyItem[1], ApiKeyItem[2])

\* C12: under every interleaving of the calls on one client, a call that
\* returns has returned the payload of its own request (its own URL and
\* params), and the response it is about to read is its own.
C12_CallsReturnOwnPayload ==
    \A c \in Calls :
        /\ calls[c].pc = "done"
           => calls[c].result = << Catalog(Url(EndpointOf(c)), SentParams(c)) >>
        /\ calls[c].pc = "read"
           => responses[ResponseSlot(c)]
                  = << Catalog(Url(EndpointOf(c)), SentParams(c)) >>

\* C12 witness: two calls with different endpoints and params have both
\* been answered and have both returned
C12_Witness ==
    /\ calls[1].pc = "done"
    /\ calls[2].pc = "done"
    /\ responses[1] # <<>>
    /\ responses[2] # <<>>
    /\ calls[1].given # calls[2].given
    /\ calls[1].result # calls[2].result

\* C18: the request descriptor is immutable per call: every request of a
\* call carries the same URL and params, and when the call is over the dict
\* the caller supplied holds the items it held before the call.
C18_RequestDescriptorImmutable ==
    \A c \in Calls :
        /\ Cardinality(calls[c].sent) <= 1
        /\ ( calls[c].pc \in {"done", "failed"} /\ calls[c].given # <<>> )
           => calls[c].caller = calls[c].given[1]

(* ------------- the same call again, against the same backend ----------- *)

\* the first call is over; the caller calls _make_request again with the same
\* endpoint, params and max_retries, and the backend starts its answers over
SecondCall ==
    /\ run = 1
    /\ Done
    /\ run' = 2
    /\ script' = outcomes
    /\ first' = <<pc, result, exc>>
    /\ pc' = "loop"
    /\ attempt' = 0
    /\ requests' = 0
    /\ outcomes' = <<>>
    /\ last_exception' = <<>>
    /\ sleep_kind' = "none"
    /\ sleep_for' = 0
    /\ result' = <<>>
    /\ exc' = <<>>
    /\ UNCHANGED <<variant, max_retries, clientVars, llmVars, handlerVars,
                   accessorVars>>

ReplayNext ==
    \/ Next
    \/ SecondCall

ReplaySpec == Init /\ [][ReplayNext]_vars

Fence == "<fence>"
WhiteSpace == {"\n", " "}

\* the JSON objects a completion may hold, by their text
ObjectTokens == {"{Netflix}", "{Hulu}", "{Tubi}"}

\* the JSON values that are not objects
ScalarTokens == {"null"}

ElementTokens == ObjectTokens \cup ScalarTokens

\* what json.loads makes of the text of one value; PyNone stands for None
PyNone == [py_none |-> TRUE]

ValueOf(token) ==
    CASE token = "{Netflix}" ->
             [provider |-> "Netflix", url |-> "https://netflix.example/1"]
      [] token = "{Hulu}" ->
             [provider |-> "Hulu", url |-> "https://hulu.example/1",
              type |-> "subscription"]
      [] token = "{Tubi}" -> [provider |-> "Tubi"]
      [] OTHER -> PyNone

\* dict.get(key, default)
Get(d, key, default) == IF key \in DOMAIN d THEN d[key] ELSE default

\* str.replace(old, ''): the occurrences of old go, left to right
RECURSIVE Replace(_, _)
Replace(text, old) ==
    IF Len(text) < Len(old) THEN text
    ELSE IF SubSeq(text, 1, Len(old)) = old
         THEN Replace(SubSeq(text, Len(old) + 1, Len(text)), old)
         ELSE <<Head(text)>> \o Replace(Tail(text), old)

RECURSIVE LStrip(_)
LStrip(text) ==
    IF text # <<>> /\ Head(text) \in WhiteSpace THEN LStrip(Tail(text))
    ELSE text

RECURSIVE RStrip(_)
RStrip(text) ==
    IF text # <<>> /\ text[Len(text)] \in WhiteSpace
    THEN RStrip(SubSeq(text, 1, Len(text) - 1))
    ELSE text

\* str.strip()
Strip(text) == RStrip(LStrip(text))

\* the cleaning with the fence markers left in
Clean_KeepsFences(content) == Strip(Strip(content))

\* lines 67-69: content.strip(), then
\* content.replace('```json', '').replace('```', '').strip()
Clean(content) ==
    Strip(Replace(Replace(Strip(content), <<Fence, "json">>), <<Fence>>))

\* the tokens of a text that are not white space
RECURSIVE Significant(_)
Significant(text) ==
    IF text = <<>> THEN <<>>
    ELSE IF Head(text) \in WhiteSpace THEN Significant(Tail(text))
         ELSE <<Head(text)>> \o Significant(Tail(text))

\* the tokens between "[" and "]" are values separated by commas
RECURSIVE IsElements(_)
IsElements(t) ==
    /\ t # <<>>
    /\ Head(t) \in ElementTokens
    /\ \/ Len(t) = 1
       \/ Len(t) >= 3 /\ t[2] = "," /\ IsElements(SubSeq(t, 3, Len(t)))

RECURSIVE Elements(_)
Elements(t) ==
    IF Len(t) <= 1 THEN [i \in 1..Len(t) |-> ValueOf(t[i])]
    ELSE <<ValueOf(Head(t))>> \o Elements(SubSeq(t, 3, Len(t)))

\* json.loads(text): a list, a dict, None, or json.JSONDecodeError
Loads(text) ==
    LET t == Significant(text)
        inner == SubSeq(t, 2, Len(t) - 1)
    IN  CASE Len(t) = 1 /\ t[1] \in ObjectTokens ->
                 [type |-> "dict", value |-> <<ValueOf(t[1])>>]
          [] Len(t) = 1 /\ t[1] \in ScalarTokens ->
                 [type |-> "NoneType", value |-> <<>>]
          [] Len(t) >= 2 /\ t[1] = "[" /\ t[Len(t)] = "]"
                 /\ (inner = <<>> \/ IsElements(inner)) ->
                 [type |-> "list", value |-> Elements(inner)]
          [] OTHER -> [type |-> "JSONDecodeError", value |-> <<>>]

\* every sequence over S of length at most n
SeqsUpTo(S, n) == UNION {[1..k -> S] : k \in 0..n}

RECURSIVE Join(_)
Join(elems) ==
    IF Len(elems) <= 1 THEN elems
    ELSE <<Head(elems), ",", " ">> \o Join(Tail(elems))

\* the text of a JSON array of the given values
ArrayText(elems) == <<"[">> \o Join(elems) \o <<"]">>

\* what a completion may say between its fences
Bodies ==
    {[what |-> "array", elems |-> e, text |-> ArrayText(e)] :
         e \in SeqsUpTo(ElementTokens, MaxLinks)}
    \cup {[what |-> "object", elems |-> <<>>, text |-> <<"{Netflix}">>],
          [what |-> "null", elems |-> <<>>, text |-> <<"null">>],
          [what |-> "prose", elems |-> <<>>, text |-> <<"Sorry">>],
          [what |-> "truncated", elems |-> <<>>, text |-> <<"[", "{Hulu}", ",">>],
          [what |-> "empty", elems |-> <<>>, text |-> <<>>]}

\* what stands before and after it
FenceOpenings == { <<Fence, "json", "\n">>, <<Fence, "\n">> }
FenceClosings == { <<"\n", Fence>>, <<"\n", Fence, "\n">> }
Openings == FenceOpenings \cup { <<>>, <<"Here", "\n">> }
Closings == FenceClosings \cup { <<>> }

\* what openai.ChatCompletion.create does: it raises, or it returns a
\* response without choices, without message['content'], with None for the
\* content, or with a text
Responses ==
    {[kind |-> "raises", name |-> n] : n \in {"APIError", "Timeout"}}
    \cup {[kind |-> k] : k \in {"no_choices", "no_content", "content_none"}}
    \cup {[kind |-> "text", pre |-> pre, body |-> body, suf |-> suf] :
             pre \in Openings, body \in Bodies, suf \in Closings}

\* response.choices[0].message['content'] of a response with a text
Content(resp) == resp.pre \o resp.body.text \o resp.suf

\* lines 67-69: the exception these lines raise, "" for none
InnerRaises(resp) ==
    CASE resp.kind = "no_choices" -> "IndexError"
      [] resp.kind = "no_content" -> "KeyError"
      [] resp.kind = "content_none" -> "AttributeError"
      [] OTHER ->
           IF Loads(Clean(Content(resp))).type = "JSONDecodeError"
           THEN "JSONDecodeError" ELSE ""

\* line 72: except (json.JSONDecodeError, KeyError)
InnerCatches(name) == name \in {"JSONDecodeError", "KeyError"}

\* an outer clause for the errors of the API only
OuterCatches_ApiErrorsOnly(name) == name \in {"APIError", "Timeout"}

\* line 77: except Exception
OuterCatches(name) == TRUE

\* how get_direct_streaming_links ends
Returned(links) == [raised |-> "", links |-> links]
Raised(name) == [raised |-> name, links |-> <<>>]

\* lines 77-79
Outer(name) == IF OuterCatches(name) THEN Returned(<<>>) ELSE Raised(name)

\* lines 69-70: links if isinstance(links, list) else []
Links(resp) ==
    LET links == Loads(Clean(Content(resp)))
    IN  IF links.type = "list" THEN links.value ELSE <<>>

\* lines 64-79
AfterCreate(resp) ==
    IF resp.kind = "raises" THEN Outer(resp.name)
    ELSE LET name == InnerRaises(resp)
         IN  IF name = "" THEN Returned(Links(resp))
             ELSE IF InnerCatches(name) THEN Returned(<<>>)
                  ELSE Outer(name)

\* line 55 is run again after a failure
Creates_AgainAfterFailure(at, answer) ==
    \/ at = "called"
    \/ at = "answered" /\ answer # <<>> /\ answer[1].kind = "raises"

\* line 55 is straight-line code: one call of the function runs it once
Creates(at, answer) == at = "called"

\* get_direct_streaming_links(title, content_type, year) is called
DirectCall ==
    /\ llm_pc = "idle"
    /\ llm_pc' = "called"
    /\ UNCHANGED <<llm_requests, completion, llm_result>>
    /\ UNCHANGED notLlmVars

\* lines 55-63
ChatCompletionCreate ==
    /\ Creates(llm_pc, completion)
    /\ llm_requests < 2
    /\ llm_requests' = llm_requests + 1
    /\ \E resp \in Responses : completion' = <<resp>>
    /\ llm_pc' = "answered"
    /\ UNCHANGED llm_result
    /\ UNCHANGED notLlmVars

\* lines 64-79
HandleCompletion ==
    /\ llm_pc = "answered"
    /\ llm_result' = <<AfterCreate(completion[1])>>
    /\ llm_pc' = "done"
    /\ UNCHANGED <<llm_requests, completion>>
    /\ UNCHANGED notLlmVars

LlmNext ==
    \/ DirectCall
    \/ ChatCompletionCreate
    \/ HandleCompletion

LlmSpec == Init /\ [][LlmNext]_vars

\* the completion is a failure: the call raised, the response lacks a field,
\* its text is no JSON, or its JSON is no array
IsFailure(resp) ==
    \/ resp.kind # "text"
    \/ resp.body.what # "array"
    \/ resp.pre \notin FenceOpenings \cup { <<>> }

\* C14: get_direct_streaming_links never raises, and returns [] whenever the
\* completion call fails, its response lacks the expected fields, its text
\* is not valid JSON, or its JSON is not an array.
C14_NeverRaisesEmptyOnFailure ==
    llm_pc = "done" =>
        /\ llm_result[1].raised = ""
        /\ IsFailure(completion[1]) => llm_result[1].links = <<>>

\* C14 witness: a response without choices (IndexError, which the inner
\* clause does not name) has ended in []
C14_Witness ==
    /\ llm_pc = "done"
    /\ completion[1].kind = "no_choices"
    /\ llm_result[1] = Returned(<<>>)

\* the values of the JSON array with the given elements, in order
RecordsOf(elems) == [i \in 1..Len(elems) |-> ValueOf(elems[i])]

\* C16: a completion that is a JSON array inside a code fence (opened with
\* or without the word json) returns the records of the array in order, and
\* the same array without the fence returns the same records.
C16_FenceMarkersStripped ==
    (/\ llm_pc = "done"
     /\ completion[1].kind = "text"
     /\ completion[1].body.what = "array"
     /\ completion[1].pre \in FenceOpenings
     /\ completion[1].suf \in FenceClosings)
    => /\ llm_result[1] = Returned(RecordsOf(completion[1].body.elems))
       /\ llm_result[1] =
              AfterCreate([completion[1] EXCEPT !.pre = <<>>, !.suf = <<>>])

\* C16 witness: the one-element example in a json fence has returned one
\* record, with provider "Netflix"
C16_Witness ==
    /\ llm_pc = "done"
    /\ completion[1].kind = "text"
    /\ completion[1].pre = <<Fence, "json", "\n">>
    /\ completion[1].body.text = <<"[", "{Netflix}", "]">>
    /\ completion[1].suf = <<"\n", Fence>>
    /\ llm_result[1].raised = ""
    /\ Len(llm_result[1].links) = 1
    /\ llm_result[1].links[1].provider = "Netflix"

(* ------------- the handlers get_movie, read_movie, watch_media --------- *)

\* A dict is the record of its items.  A record cannot be empty, so the empty
\* dict is this record, whose one field is not an item; <<>> is the empty list.
EmptyDict == [empty_dict |-> TRUE]

\* bool(x) of a dict or a list
Truthy(x) == x # EmptyDict /\ x # <<>>

\* key in d
HasKey(d, key) == key \in DOMAIN d

\* x or {}
OrEmptyDict(x) == IF Truthy(x) THEN x ELSE EmptyDict

\* the body of a 200 answer to movie/{id} or tv/{id}
DetailPayloads ==
    {[id |-> 550, title |-> "Fight Club", release_date |-> "1999-10-15"],
     EmptyDict}

Netflix == [provider_name |-> "Netflix", logo_path |-> "/netflix.jpg"]
AppleTV == [provider_name |-> "Apple TV", logo_path |-> "/apple.jpg"]

\* the body of a 200 answer to {media_type}/{id}/watch/providers
ProviderPayloads ==
    {[id |-> 550,
      results |-> [US |-> [link |-> "tmdb", flatrate |-> <<Netflix>>,
                           rent |-> <<AppleTV, Netflix>>]]],
     [id |-> 550, results |-> [US |-> [link |-> "tmdb", buy |-> <<AppleTV>>]]],
     [id |-> 550, results |-> [US |-> [link |-> "tmdb"]]],
     [id |-> 550, results |-> [GB |-> [link |-> "tmdb", flatrate |-> <<Netflix>>]]],
     [id |-> 550, results |-> EmptyDict],
     EmptyDict}

\* the body of a 200 answer to {media_type}/{id}/credits
CreditPayloads == {[id |-> 550, cast |-> <<>>]}

\* how a call of _make_request ends
Ret(value) == [how |-> "returned", value |-> <<value>>, exc |-> <<>>]
Exc(name, status) == [how |-> "raised", value |-> <<>>, exc |-> <<name, status>>]

\* the ways a call of _make_request with the default max_retries ends, for
\* the bodies a 200 answer may carry: what the loop of either body returns
\* and raises
Endings(payloads) ==
    IF variant = "flat"
    THEN {Ret(p) : p \in payloads}
         \cup {Ret(FlatOn204), Ret(FlatExhaustedResult), Exc("NameError", 0)}
         \cup {Ret(FlatErrorResult(s)) : s \in ClientErrors \cup ServerErrors}
    ELSE {Ret(p) : p \in payloads}
         \cup {Exc("HTTPException", s) : s \in {204} \cup ClientErrors \cup ServerErrors}
         \cup {Exc("NameError", 0), Exc("ValueError", 0), Exc("Exception", 0)}

\* what the client receives when an exception leaves a handler: FastAPI
\* answers an HTTPException with its status code, anything else with 500
Answer(status, body) == [status |-> status, body |-> body]

StatusOf(e) == IF e[1] = "HTTPException" THEN e[2] ELSE 500

\* lines 669-675: `except HTTPException: raise`, `except Exception` raises
\* HTTPException(500); both come to the same answer
Fails(e) ==
    /\ response' = <<Answer(StatusOf(e), <<>>)>>
    /\ h_pc' = "responded"

Answers(status, body) ==
    /\ response' = <<Answer(status, body)>>
    /\ h_pc' = "responded"

\* [f(x) for x in list]
MapSeq(list, f(_)) == [i \in 1..Len(list) |-> f(list[i])]

\* lines 572, 579: media_url
MediaUrl == "https://www.themoviedb.org/watch"

\* line 615: link.get('url') is set and not empty
HasUrl(link) == Get(link, "url", "") # ""

\* lines 608-614: one entry of ai_stream
AiEntry(link) ==
    [provider_name |-> Get(link, "provider", "Streaming Service"),
     link |-> Get(link, "url", MediaUrl),
     type |-> Get(link, "type", "subscription")]

\* lines 607-615: link.get on an element that is no dict raises
\* AttributeError
AiStreamRaises(links) == \E i \in 1..Len(links) : links[i] = PyNone

\* lines 606-615: streaming_links after the AI links were added
AiStream(links) ==
    IF links # <<>>
    THEN [ai_stream |-> MapSeq(SelectSeq(links, HasUrl), AiEntry)]
    ELSE <<>>

\* line 618: providers.get('results', {}); .get('US') on a list raises
\* AttributeError
ProvidersRaise(given) ==
    Truthy(given) /\ Get(given, "results", EmptyDict) = <<>>

\* line 619: providers['results']['US'], the empty dict when there is none
UsProviders(given) ==
    IF Truthy(given)
    THEN Get(Get(given, "results", EmptyDict), "US", EmptyDict)
    ELSE EmptyDict

\* lines 621, 631, 638: the group of streaming_links each US list goes to
GroupOf == [stream |-> "flatrate", rent |-> "rent", buy |-> "buy"]

\* lines 622-629, 632-636, 639-643: one entry of stream, rent or buy
CatalogEntry(p) == [provider_name |-> p.provider_name, link |-> MediaUrl]

\* lines 621-643: the groups added for the US providers
CatalogLinks(us) ==
    [t \in {g \in DOMAIN GroupOf : Get(us, GroupOf[g], <<>>) # <<>>} |->
         MapSeq(us[GroupOf[t]], CatalogEntry)]

\* lines 647-651: the link to the TMDB page
TmdbLinks == [stream |-> << [provider_name |-> "TMDB", link |-> MediaUrl] >>]

\* line 618: not streaming_links.get('ai_stream')
FallsBack(links) == Get(links, "ai_stream", <<>>) = <<>>

\* lines 603-651: streaming_links
StreamingLinks(links, given) ==
    LET ai == AiStream(links)
        us == UsProviders(given)
        all == IF FallsBack(ai) /\ Truthy(us) THEN ai @@ CatalogLinks(us)
               ELSE ai
    IN  IF DOMAIN all = {} THEN TmdbLinks ELSE all

Handlers == {"get_movie", "read_movie", "watch_media"}
MediaTypes == {"movie", "tv", "person"}

\* `if not movie or 'status_code' in movie` (lines 437, 583)
NotFound(found) == ~Truthy(found) \/ HasKey(found, "status_code")

\* a request arrives at /api/movie/{id}, /movie/{id} or /watch/{type}/{id}
Request ==
    /\ h_pc = "idle"
    /\ \E h \in Handlers :
         /\ handler' = h
         /\ \E t \in MediaTypes :
              /\ h # "watch_media" => t = "movie"
              /\ media_type' = t
    /\ h_pc' = "lookup"
    /\ UNCHANGED <<key_set, media, ai_links, providers, response>>
    /\ UNCHANGED llmVars
    /\ UNCHANGED notHandlerVars

\* lines 342-346: get_movie
GetMovie ==
    /\ handler = "get_movie"
    /\ h_pc = "lookup"
    /\ \E e \in Endings(DetailPayloads) :
         IF e.how = "raised"
         THEN Fails(e.exc) /\ UNCHANGED media
         ELSE LET movie == OrEmptyDict(e.value[1])
              IN  /\ media' = <<movie>>
                  /\ IF ~Truthy(movie) THEN Answers(404, <<>>)
                     ELSE Answers(200, movie)
    /\ UNCHANGED <<handler, media_type, key_set, ai_links, providers>>
    /\ UNCHANGED llmVars
    /\ UNCHANGED notHandlerVars

\* lines 428-440: read_movie up to its not-found test
ReadMovieLookup ==
    /\ handler = "read_movie"
    /\ h_pc = "lookup"
    /\ \E e \in Endings(DetailPayloads) :
         IF e.how = "raised"
         THEN Fails(e.exc) /\ UNCHANGED media
         ELSE LET movie == OrEmptyDict(e.value[1])
              IN  /\ media' = <<movie>>
                  /\ IF NotFound(movie) THEN Answers(404, <<>>)
                     ELSE h_pc' = "rest" /\ UNCHANGED response
    /\ UNCHANGED <<handler, media_type, key_set, ai_links, providers>>
    /\ UNCHANGED llmVars
    /\ UNCHANGED notHandlerVars

\* lines 441-530: the lookups of videos, providers, credits and similar are
\* each inside a try that swallows every exception; the page is rendered
ReadMovieRest ==
    /\ handler = "read_movie"
    /\ h_pc = "rest"
    /\ Answers(200, media[1])
    /\ UNCHANGED <<handler, media_type, key_set, media, ai_links, providers>>
    /\ UNCHANGED llmVars
    /\ UNCHANGED notHandlerVars

\* lines 563-565
WatchInvalidType ==
    /\ handler = "watch_media"
    /\ h_pc = "lookup"
    /\ media_type \notin {"movie", "tv"}
    /\ Answers(400, <<>>)
    /\ UNCHANGED <<handler, media_type, key_set, media, ai_links, providers>>
    /\ UNCHANGED llmVars
    /\ UNCHANGED notHandlerVars

\* lines 568-572 / 575-579: the primary lookup of watch_media
WatchDetails ==
    /\ handler = "watch_media"
    /\ h_pc = "lookup"
    /\ media_type \in {"movie", "tv"}
    /\ \E e \in Endings(DetailPayloads) :
         IF e.how = "raised"
         THEN Fails(e.exc) /\ UNCHANGED media
         ELSE /\ media' = <<OrEmptyDict(e.value[1])>>
              /\ h_pc' = "credits"
              /\ UNCHANGED response
    /\ UNCHANGED <<handler, media_type, key_set, ai_links, providers>>
    /\ UNCHANGED llmVars
    /\ UNCHANGED notHandlerVars

\* lines 573-574 / 580-581 and 583-584: the credits are looked up, then the
\* primary lookup is tested
WatchCredits ==
    /\ handler = "watch_media"
    /\ h_pc = "credits"
    /\ \E e \in Endings(CreditPayloads) :
         IF e.how = "raised" THEN Fails(e.exc)
         ELSE IF NotFound(media[1]) THEN Answers(404, <<>>)
              ELSE h_pc' = "ai" /\ UNCHANGED response
    /\ UNCHANGED <<handler, media_type, key_set, media, ai_links, providers>>
    /\ UNCHANGED llmVars
    /\ UNCHANGED notHandlerVars

\* the service is asked whatever the key
AsksAI_Always(key) == TRUE

\* line 588: if os.getenv('OPENAI_API_KEY')
AsksAI(key) == key

\* lines 587-588 with the key not set
WatchSkipAI ==
    /\ handler = "watch_media"
    /\ h_pc = "ai"
    /\ ~AsksAI(key_set)
    /\ ai_links' = <<>>
    /\ h_pc' = "providers"
    /\ UNCHANGED <<handler, media_type, key_set, media, providers, response>>
    /\ UNCHANGED llmVars
    /\ UNCHANGED notHandlerVars

\* lines 589-595: get_direct_streaming_links is called in the executor
WatchAskAI ==
    /\ handler = "watch_media"
    /\ h_pc = "ai"
    /\ AsksAI(key_set)
    /\ llm_pc = "idle"
    /\ llm_pc' = "called"
    /\ h_pc' = "ai_wait"
    /\ UNCHANGED <<llm_requests, completion, llm_result>>
    /\ UNCHANGED <<handler, media_type, key_set, media, ai_links, providers,
                   response>>
    /\ UNCHANGED notHandlerVars

\* lines 591-597: the call is over; an exception of it is swallowed and
\* ai_links stays []
WatchGotLinks ==
    /\ handler = "watch_media"
    /\ h_pc = "ai_wait"
    /\ llm_pc = "done"
    /\ ai_links' = IF llm_result[1].raised = "" THEN llm_result[1].links
                   ELSE <<>>
    /\ h_pc' = "providers"
    /\ UNCHANGED <<handler, media_type, key_set, media, providers, response>>
    /\ UNCHANGED llmVars
    /\ UNCHANGED notHandlerVars

\* lines 599-668: the catalog providers are looked up, the streaming links
\* are put together and the page is rendered
WatchProviders ==
    /\ handler = "watch_media"
    /\ h_pc = "providers"
    /\ \E e \in Endings(ProviderPayloads) :
         IF e.how = "raised"
         THEN Fails(e.exc) /\ UNCHANGED providers
         ELSE LET given == OrEmptyDict(e.value[1])
              IN  /\ providers' = <<given>>
                  /\ IF AiStreamRaises(ai_links)
                     THEN Fails(<<"AttributeError", 0>>)
                     ELSE IF FallsBack(AiStream(ai_links))
                             /\ ProvidersRaise(given)
                          THEN Fails(<<"AttributeError", 0>>)
                          ELSE Answers(200, StreamingLinks(ai_links, given))
    /\ UNCHANGED <<handler, media_type, key_set, media, ai_links>>
    /\ UNCHANGED llmVars
    /\ UNCHANGED notHandlerVars

HandlerNext ==
    \/ Request
    \/ GetMovie
    \/ ReadMovieLookup
    \/ ReadMovieRest
    \/ WatchInvalidType
    \/ WatchDetails
    \/ WatchCredits
    \/ WatchSkipAI
    \/ WatchAskAI
    \/ ChatCompletionCreate
    \/ HandleCompletion
    \/ WatchGotLinks
    \/ WatchProviders

\* the handlers call _make_request with max_retries left at its default
HandlerSpecInit == Init /\ max_retries = DefaultMaxRetries

HandlerSpec == HandlerSpecInit /\ [][HandlerNext]_vars

Responded == h_pc = "responded"

\* C15: one call of get_direct_streaming_links makes exactly one request to
\* the completion endpoint, also when that request fails, and watch_media
\* calls get_direct_streaming_links at most once for a request.
C15_OneCompletionRequest ==
    /\ llm_requests <= 1
    /\ llm_pc \in {"answered", "done"} => llm_requests = 1
    /\ (Responded /\ llm_pc # "idle") => (llm_pc = "done" /\ llm_requests = 1)

\* C15 witness: watch_media has answered after a completion call that raised,
\* and one request was made
C15_Witness ==
    /\ Responded
    /\ handler = "watch_media"
    /\ response[1].status = 200
    /\ completion # <<>>
    /\ completion[1].kind = "raises"
    /\ llm_requests = 1

\* the links watch_media presents, group by group
Presented(group) == Get(response[1].body, group, <<>>)

\* C17: with OPENAI_API_KEY not set, watch_media never calls the service and
\* makes no completion request, goes on from line 588 to the catalog lookup
\* with no AI links, and the page it renders has no ai_stream group: every
\* link on it is a link to the catalog's page.
C17_NoKeyDisablesProvider ==
    [][~key_set =>
         /\ llm_pc' = "idle"
         /\ llm_requests' = 0
         /\ h_pc = "ai" => (h_pc' = "providers" /\ ai_links' = <<>>)
         /\ (h_pc' = "responded" /\ handler' = "watch_media"
                 /\ response'[1].status = 200)
            => /\ ~HasKey(response'[1].body, "ai_stream")
               /\ \A g \in DOMAIN response'[1].body :
                    \A i \in 1..Len(response'[1].body[g]) :
                        response'[1].body[g][i].link = MediaUrl
      ]_vars

\* C17 witness: without the key, watch_media has rendered the page with the
\* catalog's Netflix under stream, and no completion request was made
C17_Witness ==
    /\ ~key_set
    /\ Responded
    /\ handler = "watch_media"
    /\ response[1].status = 200
    /\ llm_requests = 0
    /\ Len(Presented("stream")) = 1
    /\ Presented("stream")[1].provider_name = "Netflix"

\* C19: when the primary lookup has returned an empty mapping or a mapping
\* with status_code, the handler answers 404.
C19_EmptyLookupAnswers404 ==
    (Responded /\ media # <<>> /\ NotFound(media[1]))
        => response[1].status = 404

ProviderName(entry) == entry.provider_name

\* C20: once watch_media has the AI links and the catalog response, it
\* renders the page; if an AI record has a url the page has the ai_stream
\* group only, and if none has, its stream, rent and buy groups are exactly
\* the US flatrate, rent and buy providers of the catalog response.
C20_FallbackToCatalog ==
    (Responded /\ handler = "watch_media" /\ providers # <<>>)
        => /\ response[1].status = 200
           /\ IF \E i \in 1..Len(ai_links) : HasUrl(ai_links[i])
              THEN DOMAIN response[1].body = {"ai_stream"}
              ELSE /\ \A g \in DOMAIN GroupOf :
                        MapSeq(Presented(g), ProviderName) =
                            MapSeq(Get(UsProviders(providers[1]),
                                       GroupOf[g], <<>>), ProviderName)
                   /\ Presented("ai_stream") = <<>>

\* C22: every page watch_media renders presents a streaming link: one of the
\* groups of streaming_links holds at least one link.
C22_PagePresentsALink ==
    (Responded /\ handler = "watch_media" /\ response[1].status = 200)
        => \E g \in DOMAIN response[1].body : response[1].body[g] # <<>>

\* C23: a call of _make_request never has issued more session.get requests
\* than max_retries, and by the end of its n-th attempt it has issued n.
C23_OneRequestPerAttempt ==
    /\ requests <= max_retries
    /\ pc \in {"loop", "sleeping"} => requests = Len(outcomes)

(* ---------------- the accessors of TMDBClient, lines 250-315 ----------- *)

\* the accessors that unwrap the results field
ListAccessors ==
    {"get_trending", "get_popular_movies", "get_popular_tv",
     "get_top_rated_movies", "get_top_rated_tv"}

\* the accessors that hand on what _make_request returned
DetailAccessors ==
    {"get_movie_details", "get_tv_details", "get_watch_providers", "search"}

\* the body of a 200 answer to a list endpoint (trending, popular, top_rated,
\* search)
ListPayloads ==
    {[page |-> 1, results |-> << [id |-> 550], [id |-> 551] >>],
     [page |-> 1, results |-> <<>>],
     [page |-> 1],
     EmptyDict}

\* the bodies a 200 answer to the accessor's endpoint may carry
PayloadsOf(name) ==
    IF name = "get_watch_providers" THEN ProviderPayloads
    ELSE IF name \in {"get_movie_details", "get_tv_details"}
         THEN DetailPayloads
         ELSE ListPayloads

\* lines 253, 282, 288, 294, 300: data.get("results", []) if data else []
Unwrap(data) == IF Truthy(data) THEN Get(data, "results", <<>>) ELSE <<>>

\* one of the accessors is called
AccessorCall ==
    /\ acc_pc = "idle"
    /\ \E name \in ListAccessors \cup DetailAccessors : accessor' = name
    /\ acc_pc' = "called"
    /\ UNCHANGED <<fetched, acc_out>>
    /\ UNCHANGED notAccessorVars

\* lines 250-253, 278-300: _make_request is awaited and its result unwrapped;
\* an exception of _make_request leaves the accessor
ListAccessorEnds ==
    /\ acc_pc = "called"
    /\ accessor \in ListAccessors
    /\ \E e \in Endings(PayloadsOf(accessor)) :
         /\ fetched' = <<e>>
         /\ acc_out' = IF e.how = "raised" THEN <<e>>
                       ELSE <<Ret(Unwrap(e.value[1]))>>
    /\ acc_pc' = "done"
    /\ UNCHANGED accessor
    /\ UNCHANGED notAccessorVars

\* lines 255-276, 302-315: return await self._make_request(...) or {}
DetailAccessorEnds ==
    /\ acc_pc = "called"
    /\ accessor \in DetailAccessors
    /\ \E e \in Endings(PayloadsOf(accessor)) :
         /\ fetched' = <<e>>
         /\ acc_out' = IF e.how = "raised" THEN <<e>>
                       ELSE <<Ret(OrEmptyDict(e.value[1]))>>
    /\ acc_pc' = "done"
    /\ UNCHANGED accessor
    /\ UNCHANGED notAccessorVars

AccessorNext ==
    \/ AccessorCall
    \/ ListAccessorEnds
    \/ DetailAccessorEnds

\* the accessors call _make_request with max_retries left at its default
AccessorSpecInit == Init /\ max_retries = DefaultMaxRetries

AccessorSpec == AccessorSpecInit /\ [][AccessorNext]_vars

\* C21: a list accessor always returns a list, the results field of what
\* _make_request came to when it has one and [] otherwise; a detail accessor
\* returns what _make_request returned, or {} when that is empty.
C21_AccessorsUnwrap ==
    acc_pc = "done" =>
        /\ acc_out[1].how = "returned"
        /\ fetched[1].how = "returned"
        /\ accessor \in ListAccessors =>
               acc_out[1].value[1] =
                   IF HasKey(fetched[1].value[1], "results")
                   THEN fetched[1].value[1].results ELSE <<>>
        /\ accessor \in DetailAccessors =>
               acc_out[1].value[1] =
                   IF fetched[1].value[1] = EmptyDict THEN EmptyDict
                   ELSE fetched[1].value[1]

====
